---- MODULE Spec2Model ----
(***************************************************************************)
(* Earthquake dashboard: the chart's spatial downsampler (downsampleData), *)
(* the zoom state of EarthquakeChart, the axis filter of Dashboard and the *)
(* selection/hover context, and EarthquakeTable: its sorting state, its    *)
(* row handlers and the effect that scrolls to the selected row.           *)
(*                                                                         *)
(* JavaScript numbers are modelled as exact rationals [n, d] (d > 0, in    *)
(* lowest terms); the special values NaN, Infinity and -Infinity are       *)
(* modelled where the code can produce them (the grid size and the grid    *)
(* indices).  Floating-point rounding is not modelled.                     *)
(* null and undefined are the record Null.                                *)
(***************************************************************************)
EXTENDS Integers, Sequences, FiniteSets, TLC

VARIABLES
    data,               \* Dashboard: the records returned by useEarthquakeData
    chartAxes,          \* Dashboard: useState {xAxis, yAxis}
    xAxis,              \* EarthquakeChart: useState xAxis
    yAxis,              \* EarthquakeChart: useState yAxis
    zoomState,          \* EarthquakeChart: useState ZoomState | null
    selectedEarthquake, \* EarthquakeProvider: useState selectedEarthquake
    hoveredEarthquake,  \* EarthquakeProvider: useState hoveredEarthquake
    sorting,            \* EarthquakeTable: useState SortingState
    scrollCalls,        \* the rowVirtualizer.scrollToIndex calls of the last step
    dsPoints,           \* downsampleData call: argument points
    dsMaxPoints,        \* downsampleData call: argument maxPoints
    dsZoom,             \* downsampleData call: argument zoomState (Null = undefined)
    dsOut,              \* downsampleData call: the returned list
    dsPermPoints,       \* the same points in another order
    dsPermOut,          \* downsampleData of dsPermPoints
    dsPhase,            \* "idle" | "input" | "called" | "permuted"
    query,              \* useEarthquakeData: the state of the 'earthquakes' query
    virtualizer,        \* EarthquakeTable: rowVirtualizer and its scroll element
    dataCache,          \* dataProcessing: the module-level Map dataCache
    cacheCall           \* the last call of a cached function: arguments and result

vars == <<data, chartAxes, xAxis, yAxis, zoomState, selectedEarthquake,
          hoveredEarthquake, sorting, scrollCalls, dsPoints, dsMaxPoints, dsZoom, dsOut,
          dsPermPoints, dsPermOut, dsPhase, query, virtualizer, dataCache, cacheCall>>

chartVars == <<data, chartAxes, xAxis, yAxis, zoomState, selectedEarthquake,
               hoveredEarthquake, sorting, scrollCalls>>

dsVars == <<dsPoints, dsMaxPoints, dsZoom, dsOut, dsPermPoints, dsPermOut, dsPhase>>

\* the query, the virtualizer and the cache, which no handler of the chart
\* or of the table writes
restVars == <<query, virtualizer, dataCache, cacheCall>>

(***************************************************************************)
(* Bounds of the model.                                                    *)
(***************************************************************************)
\* longest point list handed to downsampleData by the call harness
MaxLen == 3
\* largest maxPoints handed to downsampleData by the call harness
MaxMaxPoints == 2
\* longest record list returned by the data hook, chart alone
MaxData == 4
\* longest record list returned by the data hook, chart and table
MaxRows == 3
\* longest record list of the table sorted through its headers
MaxSortRows == 3
\* largest number of rows handed to the row virtualizer
MaxCount == 8
\* tallest scroll element of the table, in rows
MaxViewportRows == 2
\* most data lines of a CSV text the feed returns
MaxCsvLines == 2
\* longest record list handed to the cached functions
MaxCacheRows == 2
\* most entries of dataCache before the calls stop
MaxCacheEntries == 2
\* MAX_POINTS of chartData is 200; scaled down so that small record lists
\* exceed it
MAX_POINTS == 2

\* null / undefined
Null == [null |-> TRUE]

\* the query has delivered its data, the table is not scrolled and no cached
\* function was called
RestIdle ==
    /\ query = [status |-> "success", fetchStatus |-> "idle", failureCount |-> 0,
                retryDelay |-> 0, error |-> Null]
    /\ virtualizer = [count |-> 0, outerSize |-> 0, scrollOffset |-> 0, scroll |-> Null]
    /\ dataCache = <<>>
    /\ cacheCall = Null

(***************************************************************************)
(* Numbers.                                                                *)
(***************************************************************************)
Abs(i) == IF i < 0 THEN -i ELSE i

RECURSIVE GCD(_, _)
GCD(a, b) == IF b = 0 THEN a ELSE GCD(b, a % b)

\* the rational n/d, d > 0, in lowest terms
Rat(n, d) == LET g == GCD(Abs(n), d) IN [n |-> n \div g, d |-> d \div g]

Int2Num(i) == [n |-> i, d |-> 1]

RAdd(a, b) == Rat(a.n * b.d + b.n * a.d, a.d * b.d)
RSub(a, b) == Rat(a.n * b.d - b.n * a.d, a.d * b.d)
RMul(a, b) == Rat(a.n * b.n, a.d * b.d)
RDivInt(a, k) == Rat(a.n, a.d * k)
RLeq(a, b) == a.n * b.d <= b.n * a.d
RLt(a, b) == a.n * b.d < b.n * a.d
RZero == Int2Num(0)

\* Math.max(...s) and Math.min(...s) of a non-empty list of numbers
RECURSIVE MathMax(_)
MathMax(s) ==
    IF Len(s) = 1 THEN s[1]
    ELSE LET m == MathMax(Tail(s)) IN IF RLeq(m, s[1]) THEN s[1] ELSE m

RECURSIVE MathMin(_)
MathMin(s) ==
    IF Len(s) = 1 THEN s[1]
    ELSE LET m == MathMin(Tail(s)) IN IF RLeq(s[1], m) THEN s[1] ELSE m

\* s.reduce((sum, p) => sum + p, 0)
RECURSIVE Sum(_)
Sum(s) == IF s = <<>> THEN RZero ELSE RAdd(s[1], Sum(Tail(s)))

\* Math.max over integer magnitudes
RECURSIVE MaxInt(_)
MaxInt(s) ==
    IF Len(s) = 1 THEN s[1]
    ELSE LET m == MaxInt(Tail(s)) IN IF m <= s[1] THEN s[1] ELSE m

\* Array.prototype.map on sequences (filter is SelectSeq)
Map(s, F(_)) == [i \in 1..Len(s) |-> F(s[i])]

\* ids.join('_')
RECURSIVE Join(_)
Join(ids) ==
    IF ids = <<>> THEN ""
    ELSE IF Len(ids) = 1 THEN ids[1]
    ELSE ids[1] \o "_" \o Join(Tail(ids))

(***************************************************************************)
(* downsampleData (EarthquakeChart.tsx).                                   *)
(* A ChartDataPoint is a record [id, x, y, magnitude, place]; a cluster    *)
(* representative has the further fields isCluster, clusterSize and        *)
(* earthquakeIds.                                                          *)
(***************************************************************************)
\* dataPoint.isCluster as a condition: an absent field is falsy
IsCluster(p) == "isCluster" \in DOMAIN p /\ p.isCluster

\* the filter predicate of the zoom area (inclusive bounds)
InZoom(zoom, point) ==
    /\ RLeq(zoom.xMin, point.x) /\ RLeq(point.x, zoom.xMax)
    /\ RLeq(zoom.yMin, point.y) /\ RLeq(point.y, zoom.yMax)

\* xRange / yRange: Math.max(...values) - Math.min(...values)
Range(values) == RSub(MathMax(values), MathMin(values))

\* Math.sqrt((xRange * yRange) / maxPoints).  A positive finite grid size is
\* kept as its square sq; 0/0 is NaN and a / 0 (a > 0) is Infinity.
GridSize(xRange, yRange, maxPoints) ==
    LET area == RMul(xRange, yRange) IN
    IF maxPoints = 0
    THEN IF area.n = 0 THEN [kind |-> "NaN", sq |-> RZero]
                       ELSE [kind |-> "Infinity", sq |-> RZero]
    ELSE IF area.n = 0 THEN [kind |-> "zero", sq |-> RZero]
                       ELSE [kind |-> "positive", sq |-> RDivInt(area, maxPoints)]

\* the largest k >= from with k*k*sq <= vsq: floor(sqrt(vsq/sq))
RECURSIVE FloorRoot(_, _, _)
FloorRoot(vsq, sq, from) ==
    IF RLeq(RMul(Int2Num((from + 1) * (from + 1)), sq), vsq)
    THEN FloorRoot(vsq, sq, from + 1)
    ELSE from

\* the smallest k >= from with k*k*sq >= vsq: ceil(sqrt(vsq/sq))
RECURSIVE CeilRoot(_, _, _)
CeilRoot(vsq, sq, from) ==
    IF RLeq(vsq, RMul(Int2Num(from * from), sq))
    THEN from
    ELSE CeilRoot(vsq, sq, from + 1)

\* Math.floor(v / gridSize)
GridIndex(v, gridSize) ==
    CASE gridSize.kind = "NaN" -> [kind |-> "NaN", v |-> 0]
      [] gridSize.kind = "Infinity" -> [kind |-> "finite", v |-> 0]
      [] gridSize.kind = "zero" ->
            IF v.n > 0 THEN [kind |-> "Infinity", v |-> 0]
            ELSE IF v.n < 0 THEN [kind |-> "-Infinity", v |-> 0]
            ELSE [kind |-> "NaN", v |-> 0]
      [] gridSize.kind = "positive" ->
            IF v.n >= 0
            THEN [kind |-> "finite", v |-> FloorRoot(RMul(v, v), gridSize.sq, 0)]
            ELSE [kind |-> "finite", v |-> -CeilRoot(RMul(v, v), gridSize.sq, 0)]

\* the string of a grid index inside the template literal
NumToString(g) == IF g.kind = "finite" THEN ToString(g.v) ELSE g.kind

\* `${gridX},${gridY}`
CellKey(point, gridSize) ==
    NumToString(GridIndex(point.x, gridSize)) \o "," \o
    NumToString(GridIndex(point.y, gridSize))

\* AddToCluster without the clusters.has(key) lookup: every point opens a cell
AddToCluster_NoLookup(clusters, key, point) ==
    Append(clusters, [key |-> key, points |-> <<point>>])

\* one step of the grouping loop; clusters is the Map in insertion order,
\* a sequence of [key, points]
AddToCluster(clusters, key, point) ==
    IF \E i \in 1..Len(clusters) : clusters[i].key = key
    THEN LET i == CHOOSE j \in 1..Len(clusters) : clusters[j].key = key
         IN [clusters EXCEPT ![i].points = Append(@, point)]
    ELSE Append(clusters, [key |-> key, points |-> <<point>>])

\* filteredPoints.forEach(...) over the first n points
RECURSIVE GroupPoints(_, _, _)
GroupPoints(filteredPoints, gridSize, n) ==
    IF n = 0 THEN <<>>
    ELSE AddToCluster(GroupPoints(filteredPoints, gridSize, n - 1),
                      CellKey(filteredPoints[n], gridSize), filteredPoints[n])

\* Representative taking the magnitude of the first member instead of the largest
Representative_FirstMagnitude(clusterPoints) ==
    IF Len(clusterPoints) = 1
    THEN clusterPoints[1]
    ELSE [id |-> "cluster_" \o Join(Map(clusterPoints, LAMBDA p : p.id)),
          x |-> RDivInt(Sum(Map(clusterPoints, LAMBDA p : p.x)), Len(clusterPoints)),
          y |-> RDivInt(Sum(Map(clusterPoints, LAMBDA p : p.y)), Len(clusterPoints)),
          magnitude |-> clusterPoints[1].magnitude,
          place |-> ToString(Len(clusterPoints)) \o " earthquakes in this area",
          isCluster |-> TRUE,
          clusterSize |-> Len(clusterPoints),
          earthquakeIds |-> Map(clusterPoints, LAMBDA p : p.id)]

\* the entry pushed for one cell
Representative(clusterPoints) ==
    IF Len(clusterPoints) = 1
    THEN clusterPoints[1]
    ELSE [id |-> "cluster_" \o Join(Map(clusterPoints, LAMBDA p : p.id)),
          x |-> RDivInt(Sum(Map(clusterPoints, LAMBDA p : p.x)), Len(clusterPoints)),
          y |-> RDivInt(Sum(Map(clusterPoints, LAMBDA p : p.y)), Len(clusterPoints)),
          magnitude |-> MaxInt(Map(clusterPoints, LAMBDA p : p.magnitude)),
          place |-> ToString(Len(clusterPoints)) \o " earthquakes in this area",
          isCluster |-> TRUE,
          clusterSize |-> Len(clusterPoints),
          earthquakeIds |-> Map(clusterPoints, LAMBDA p : p.id)]

\* the points that are gridded: the zoom area's points when zoomed
FilteredPoints(points, zoom) ==
    IF zoom # Null THEN SelectSeq(points, LAMBDA p : InZoom(zoom, p)) ELSE points

\* the grid size computed for a list of points
GridSizeOf(filteredPoints, maxPoints) ==
    GridSize(Range(Map(filteredPoints, LAMBDA p : p.x)),
             Range(Map(filteredPoints, LAMBDA p : p.y)), maxPoints)

\* does the call reach the grid (neither early return taken)?
ReachesGrid(points, maxPoints, zoom) ==
    /\ Len(points) > maxPoints
    /\ zoom # Null => Len(FilteredPoints(points, zoom)) > maxPoints

downsampleData(points, maxPoints, zoom) ==
    IF Len(points) <= maxPoints THEN points
    ELSE LET filteredPoints == FilteredPoints(points, zoom) IN
         IF zoom # Null /\ Len(filteredPoints) <= maxPoints THEN filteredPoints
         ELSE LET gridSize == GridSizeOf(filteredPoints, maxPoints)
                  clusters == GroupPoints(filteredPoints, gridSize, Len(filteredPoints))
              IN Map(clusters, LAMBDA c : Representative(c.points))

\* dataStats.represented: the number of earthquakes a result stands for
RECURSIVE totalRepresented(_)
totalRepresented(points) ==
    IF points = <<>> THEN 0
    ELSE totalRepresented(SubSeq(points, 1, Len(points) - 1)) +
         (IF IsCluster(points[Len(points)]) THEN points[Len(points)].clusterSize ELSE 1)

(***************************************************************************)
(* Calls of downsampleData on arbitrary arguments.                         *)
(***************************************************************************)
\* ids of the points of a call, by position
PointIds == <<"a", "b", "c", "d", "e", "f", "g", "h">>

\* the (x, y) a point of a call can have: zero, positive and negative
\* coordinates, points sharing x, points sharing y
Positions == {<<0, 0>>, <<10, 10>>, <<-1, 0>>, <<0, 10>>}
Magnitudes == {1, 2}

\* the ChartDataPoint lists of length n whose i-th point has the i-th id
PointLists(n) ==
    { [i \in 1..n |-> [id |-> PointIds[i], x |-> Int2Num(c[i][1][1]),
                       y |-> Int2Num(c[i][1][2]), magnitude |-> c[i][2],
                       place |-> "place"]] :
        c \in [1..n -> Positions \X Magnitudes] }

Rect(x1, x2, y1, y2) ==
    [xMin |-> Int2Num(x1), xMax |-> Int2Num(x2), yMin |-> Int2Num(y1), yMax |-> Int2Num(y2)]

\* the zoomState arguments of a call
ZoomArgs == {Null, Rect(0, 10, 0, 10), Rect(-1, 0, 0, 0)}

\* points with the i-th and j-th exchanged
Swap(points, i, j) ==
    [k \in 1..Len(points) |->
        IF k = i THEN points[j] ELSE IF k = j THEN points[i] ELSE points[k]]

ChartIdle ==
    /\ data = <<>>
    /\ chartAxes = [xAxis |-> "longitude", yAxis |-> "latitude"]
    /\ xAxis = "longitude"
    /\ yAxis = "latitude"
    /\ zoomState = Null
    /\ selectedEarthquake = Null
    /\ hoveredEarthquake = Null
    /\ sorting = <<>>
    /\ scrollCalls = <<>>

InitDS ==
    /\ RestIdle
    /\ ChartIdle
    /\ dsPhase = "input"
    /\ \E n \in 0..MaxLen : dsPoints \in PointLists(n)
    /\ dsMaxPoints \in 0..MaxMaxPoints
    /\ dsZoom \in ZoomArgs
    /\ dsOut = <<>>
    /\ dsPermPoints = <<>>
    /\ dsPermOut = <<>>

\* downsampleData(points, maxPoints, zoomState)
Call ==
    /\ dsPhase = "input"
    /\ dsOut' = downsampleData(dsPoints, dsMaxPoints, dsZoom)
    /\ dsPhase' = "called"
    /\ UNCHANGED <<dsPoints, dsMaxPoints, dsZoom, dsPermPoints, dsPermOut>>
    /\ UNCHANGED <<chartVars, restVars>>

\* downsampleData on the same points in another order, same maxPoints and zoomState
CallPermuted ==
    /\ dsPhase = "called"
    /\ \E i, j \in 1..Len(dsPoints) :
          /\ j = i + 1
          /\ dsPermPoints' = Swap(dsPoints, i, j)
          /\ dsPermOut' = downsampleData(Swap(dsPoints, i, j), dsMaxPoints, dsZoom)
    /\ dsPhase' = "permuted"
    /\ UNCHANGED <<dsPoints, dsMaxPoints, dsZoom, dsOut>>
    /\ UNCHANGED <<chartVars, restVars>>

NextDS == Call \/ CallPermuted

SpecDS == InitDS /\ [][NextDS]_vars

(***************************************************************************)
(* Dashboard, EarthquakeChart and the selection/hover context.             *)
(***************************************************************************)
\* the numeric columns offered as axes (three of getNumericColumns; gap is
\* one of the nullable ones)
Axes == {"longitude", "latitude", "gap"}

RecordIds == <<"e1", "e2", "e3", "e4", "e5", "e6", "e7", "e8">>

\* the field values a record can have
Sites == <<
    [longitude |-> Int2Num(0), latitude |-> Int2Num(0), gap |-> Int2Num(5), mag |-> 1],
    [longitude |-> Int2Num(0), latitude |-> Int2Num(1), gap |-> Int2Num(5), mag |-> 2],
    [longitude |-> Int2Num(-10), latitude |-> Int2Num(10), gap |-> Null, mag |-> 1] >>

\* the record lists of length n, up to the order of the records; ids are unique
Datasets(n) ==
    { [i \in 1..n |-> [id |-> RecordIds[i], longitude |-> Sites[c[i]].longitude,
                       latitude |-> Sites[c[i]].latitude, gap |-> Sites[c[i]].gap,
                       mag |-> Sites[c[i]].mag, place |-> "place"]] :
        c \in { f \in [1..n -> 1..Len(Sites)] : \A i \in 1..(n - 1) : f[i] <= f[i + 1] } }

\* isNaN(value) for a number or null
IsNaN(value) == "nan" \in DOMAIN value

\* Dashboard: the filter of synchronizedData for given records and axes
synchronizedDataFor(records, axes) ==
    SelectSeq(records, LAMBDA earthquake :
        /\ earthquake[axes.xAxis] # Null
        /\ earthquake[axes.yAxis] # Null
        /\ ~IsNaN(earthquake[axes.xAxis])
        /\ ~IsNaN(earthquake[axes.yAxis]))

\* Dashboard: synchronizedData, the data prop of the chart and of the table
synchronizedData == synchronizedDataFor(data, chartAxes)

\* EarthquakeChart: the chart points of records on the axes x and y
chartPoints(records, x, y) ==
    Map(records, LAMBDA earthquake :
        [id |-> earthquake.id, x |-> earthquake[x], y |-> earthquake[y],
         magnitude |-> earthquake.mag, place |-> earthquake.place])

\* EarthquakeChart: allPoints of chartData
allPoints == chartPoints(synchronizedData, xAxis, yAxis)

\* EarthquakeChart: chartData
chartData == downsampleData(allPoints, MAX_POINTS, zoomState)

\* data.find(eq => eq.id === id) on the chart's data prop
FindById(records, id) ==
    IF \E i \in 1..Len(records) : records[i].id = id
    THEN records[CHOOSE i \in 1..Len(records) :
                    /\ records[i].id = id
                    /\ \A j \in 1..(i - 1) : records[j].id # id]
    ELSE Null

\* is id an element of ids (Array.prototype.includes)
Includes(ids, id) == \E i \in 1..Len(ids) : ids[i] = id

\* ZoomForCluster with the margin taken off the box instead of added to it
ZoomForCluster_MarginInwards(dataPoint) ==
    LET allClusterPoints ==
            SelectSeq(synchronizedData, LAMBDA eq : Includes(dataPoint.earthquakeIds, eq.id))
        xValues == Map(allClusterPoints, LAMBDA eq : eq[xAxis])
        yValues == Map(allClusterPoints, LAMBDA eq : eq[yAxis])
        xMin == MathMin(xValues)
        xMax == MathMax(xValues)
        yMin == MathMin(yValues)
        yMax == MathMax(yValues)
        xRange == RSub(xMax, xMin)
        yRange == RSub(yMax, yMin)
    IN [xMin |-> RAdd(xMin, RDivInt(xRange, 10)),
        xMax |-> RSub(xMax, RDivInt(xRange, 10)),
        yMin |-> RAdd(yMin, RDivInt(yRange, 10)),
        yMax |-> RSub(yMax, RDivInt(yRange, 10))]

\* the rectangle handleDotClick computes for a cluster: the bounding box of
\* its members with a margin of 0.1 of the span on each side
ZoomForCluster(dataPoint) ==
    LET allClusterPoints ==
            SelectSeq(synchronizedData, LAMBDA eq : Includes(dataPoint.earthquakeIds, eq.id))
        xValues == Map(allClusterPoints, LAMBDA eq : eq[xAxis])
        yValues == Map(allClusterPoints, LAMBDA eq : eq[yAxis])
        xMin == MathMin(xValues)
        xMax == MathMax(xValues)
        yMin == MathMin(yValues)
        yMax == MathMax(yValues)
        xRange == RSub(xMax, xMin)
        yRange == RSub(yMax, yMin)
    IN [xMin |-> RSub(xMin, RDivInt(xRange, 10)),
        xMax |-> RAdd(xMax, RDivInt(xRange, 10)),
        yMin |-> RSub(yMin, RDivInt(yRange, 10)),
        yMax |-> RAdd(yMax, RDivInt(yRange, 10))]

\* the dots drawn by <Scatter data={chartData}>
Dots == { chartData[i] : i \in 1..Len(chartData) }

(***************************************************************************)
(* EarthquakeTable.  The table sorts through @tanstack/react-table; the    *)
(* model follows the magnitude column, whose header cycles through         *)
(* descending, ascending and unsorted.                                     *)
(***************************************************************************)
SortingStates ==
    { <<>>, <<[id |-> "mag", desc |-> TRUE]>>, <<[id |-> "mag", desc |-> FALSE]>> }

\* the sortable columns the model follows: a column of numbers and a column
\* of strings
SortColumns == {"mag", "place"}

\* String.prototype.toLowerCase on the place names of the model
toLowerCase(text) == IF text = "B" THEN "b" ELSE text

\* the place of a lower-case place name in the order of the strings
TextRank(text) == IF text = "a" THEN 1 ELSE IF text = "b" THEN 2 ELSE 3

\* compareBasic(a, b) of the sorting functions
compareBasic(a, b) == IF a = b THEN 0 ELSE IF a > b THEN 1 ELSE -1

\* the sorting function react-table picks for the column: basic for
\* numbers, text (compareBasic of the lower-case strings) for strings
sortingFn(column, rowA, rowB) ==
    IF column = "place"
    THEN compareBasic(TextRank(toLowerCase(rowA.place)),
                      TextRank(toLowerCase(rowB.place)))
    ELSE compareBasic(rowA[column], rowB[column])

\* the comparison of two rows by the entries of sortingState, in their
\* order; 0 when every entry compares equal
RECURSIVE compareRows(_, _, _)
compareRows(rowA, rowB, sortingState) ==
    IF sortingState = <<>>
    THEN 0
    ELSE LET sortEntry == Head(sortingState)
             sortInt == sortingFn(sortEntry.id, rowA, rowB)
         IN IF sortInt # 0
            THEN IF sortEntry.desc THEN -sortInt ELSE sortInt
            ELSE compareRows(rowA, rowB, Tail(sortingState))

\* sortedRows that puts the records that compare equal in the reverse of
\* the order of the data
sortedRows_TiesReversed(records, sortingState) ==
    IF sortingState = <<>>
    THEN records
    ELSE LET Before(j, i) ==
                 LET sortInt == compareRows(records[j], records[i], sortingState)
                 IN sortInt < 0 \/ (sortInt = 0 /\ j > i)
             Rank(i) == Cardinality({ j \in 1..Len(records) : Before(j, i) })
         IN [k \in 1..Len(records) |->
                records[CHOOSE i \in 1..Len(records) : Rank(i) = k - 1]]

\* getSortedRowModel: the records in the order of sortingState; records that
\* compare equal keep the order of the data (rowA.index - rowB.index)
sortedRows(records, sortingState) ==
    IF sortingState = <<>>
    THEN records
    ELSE LET Before(j, i) ==
                 LET sortInt == compareRows(records[j], records[i], sortingState)
                 IN sortInt < 0 \/ (sortInt = 0 /\ j < i)
             Rank(i) == Cardinality({ j \in 1..Len(records) : Before(j, i) })
         IN [k \in 1..Len(records) |->
                records[CHOOSE i \in 1..Len(records) : Rank(i) = k - 1]]

\* table.getRowModel().rows (row.original of each row)
rows == sortedRows(synchronizedData, sorting)

\* findIndex counting the rows from 1
findIndex_OneBased(rs, id) ==
    IF \E i \in 1..Len(rs) : rs[i].id = id
    THEN CHOOSE i \in 1..Len(rs) :
             /\ rs[i].id = id
             /\ \A j \in 1..(i - 1) : rs[j].id # id
    ELSE -1

\* rows.findIndex(row => row.original.id === id): 0-based, -1 when absent
findIndex(rs, id) ==
    IF \E i \in 1..Len(rs) : rs[i].id = id
    THEN (CHOOSE i \in 1..Len(rs) :
             /\ rs[i].id = id
             /\ \A j \in 1..(i - 1) : rs[j].id # id) - 1
    ELSE -1

\* autoScroll without the test of rowIndex against -1
autoScroll_NoFoundTest(selected, rs) ==
    IF selected # Null
    THEN << [index |-> findIndex(rs, selected.id), align |-> "center",
             behavior |-> "smooth"] >>
    ELSE <<>>

\* the body of the auto-scroll effect for the committed selectedEarthquake
\* and rows: the scrollToIndex calls it makes
autoScroll(selected, rs) ==
    IF selected # Null
    THEN LET rowIndex == findIndex(rs, selected.id) IN
            IF rowIndex # -1
            THEN << [index |-> rowIndex, align |-> "center", behavior |-> "smooth"] >>
            ELSE <<>>
    ELSE <<>>

\* scrollEffect of an effect without a dependency array: it runs after
\* every commit
scrollEffect_EveryCommit(depsChanged, selected, rs) == autoScroll(selected, rs)

\* the effect runs after a commit in which one of its dependencies
\* (selectedEarthquake, rows; rowVirtualizer is the same instance throughout)
\* is a new reference.  The records are the objects of data, so a record is
\* the same reference exactly when it is the same record.
scrollEffect(depsChanged, selected, rs) ==
    IF depsChanged THEN autoScroll(selected, rs) ELSE <<>>

\* header.column.getToggleSortingHandler() of the magnitude column
toggleSorting(sortingState) ==
    IF sortingState = <<>> THEN <<[id |-> "mag", desc |-> TRUE]>>
    ELSE IF sortingState[1].desc THEN <<[id |-> "mag", desc |-> FALSE]>>
    ELSE <<>>

\* getAutoSortDir that takes every column for a column of strings
getAutoSortDir_AlwaysAsc(column, records) == "asc"

\* column.getAutoSortDir(): by the value of the column in the first row
getAutoSortDir(column, records) ==
    IF Len(records) >= 1 /\ column = "place" THEN "asc" ELSE "desc"

\* column.getFirstSortDir(): no sortDescFirst option is set
getFirstSortDir(column, records) == getAutoSortDir(column, records)

\* column.getIsSorted(): FALSE, "asc" or "desc"
getIsSorted(column, sortingState) ==
    IF \E k \in 1..Len(sortingState) : sortingState[k].id = column
    THEN LET k == CHOOSE k \in 1..Len(sortingState) : sortingState[k].id = column
         IN IF sortingState[k].desc THEN "desc" ELSE "asc"
    ELSE "none"

\* column.getNextSortingOrder(): "none" stands for false (remove the sort)
getNextSortingOrder(column, records, sortingState) ==
    LET firstSortDirection == getFirstSortDir(column, records)
        isSorted == getIsSorted(column, sortingState)
    IN IF isSorted = "none" THEN firstSortDirection
       ELSE IF isSorted # firstSortDirection THEN "none"
       ELSE IF isSorted = "desc" THEN "asc" ELSE "desc"

\* column.toggleSorting(undefined, multi): the next sorting state
columnToggleSorting(column, multi, records, sortingState) ==
    LET nextSortingOrder == getNextSortingOrder(column, records, sortingState)
        existingSorting == \E k \in 1..Len(sortingState) : sortingState[k].id = column
        nextDesc == nextSortingOrder = "desc"
        sortAction ==
            IF sortingState # <<>> /\ multi
            THEN IF existingSorting THEN "toggle" ELSE "add"
            ELSE IF sortingState # <<>> /\ sortingState[Len(sortingState)].id # column
                 THEN "replace"
                 ELSE IF existingSorting THEN "toggle" ELSE "replace"
        action == IF sortAction = "toggle" /\ nextSortingOrder = "none"
                  THEN "remove" ELSE sortAction
    IN CASE action = "add" -> Append(sortingState, [id |-> column, desc |-> nextDesc])
         [] action = "toggle" ->
               [k \in 1..Len(sortingState) |->
                   IF sortingState[k].id = column
                   THEN [id |-> column, desc |-> nextDesc]
                   ELSE sortingState[k]]
         [] action = "remove" ->
               SelectSeq(sortingState, LAMBDA sortEntry : sortEntry.id # column)
         [] OTHER -> <<[id |-> column, desc |-> nextDesc]>>

\* isSelected that does not compare the ids
isSelected_AnySelection(earthquake) == selectedEarthquake # Null

\* VirtualizedRow: isSelected and isHovered of the row of earthquake
isSelected(earthquake) ==
    selectedEarthquake # Null /\ selectedEarthquake.id = earthquake.id

isHovered(earthquake) ==
    hoveredEarthquake # Null /\ hoveredEarthquake.id = earthquake.id

\* VirtualizedRow: which of the three class lists rowClassName carries
rowClassName(earthquake) ==
    IF isSelected(earthquake) THEN "bg-blue-50"
    ELSE IF isHovered(earthquake) THEN "bg-yellow-50"
    ELSE "hover:bg-gray-50"

\* EarthquakeChart: getDotColor
getDotColor(dataPoint) ==
    IF IsCluster(dataPoint)
    THEN IF dataPoint.clusterSize >= 20 THEN "#7c3aed"
         ELSE IF dataPoint.clusterSize >= 10 THEN "#2563eb"
         ELSE IF dataPoint.clusterSize >= 5 THEN "#0891b2"
         ELSE "#059669"
    ELSE IF dataPoint.magnitude >= 5 THEN "#b91c1c"
         ELSE IF dataPoint.magnitude >= 4 THEN "#ea580c"
         ELSE IF dataPoint.magnitude >= 3 THEN "#d97706"
         ELSE IF dataPoint.magnitude >= 2 THEN "#84cc16"
         ELSE "#22c55e"

\* EarthquakeChart: getDotSize.  The radius of a cluster,
\* max(8, min(20, 6 + 3 ln(clusterSize))), is kept as the clusterSize it is
\* computed from.
getDotSize(dataPoint) ==
    IF IsCluster(dataPoint)
    THEN [ofClusterSize |-> dataPoint.clusterSize]
    ELSE LET least == IF 12 <= dataPoint.magnitude * 2 THEN 12
                      ELSE dataPoint.magnitude * 2
         IN [px |-> IF 4 >= least THEN 4 ELSE least]

\* EarthquakeChart: the attributes of the <circle> CustomDot draws for
\* dataPoint, apart from its position
CustomDot(dataPoint) ==
    [r |-> getDotSize(dataPoint),
     fill |-> getDotColor(dataPoint),
     opacity |-> IF IsCluster(dataPoint) THEN "0.8" ELSE "0.7",
     stroke |-> IF IsCluster(dataPoint) THEN "#ffffff" ELSE "none",
     strokeWidth |-> IF IsCluster(dataPoint) THEN 2 ELSE 0]

InitChart ==
    /\ RestIdle
    /\ \E n \in 1..MaxData : data \in Datasets(n)
    /\ chartAxes = [xAxis |-> "longitude", yAxis |-> "latitude"]
    /\ xAxis = "longitude"
    /\ yAxis = "latitude"
    /\ zoomState = Null
    /\ selectedEarthquake = Null
    /\ hoveredEarthquake = Null
    /\ sorting = <<>>
    /\ scrollCalls = <<>>
    /\ dsPhase = "idle"
    /\ dsPoints = <<>>
    /\ dsMaxPoints = 0
    /\ dsZoom = Null
    /\ dsOut = <<>>
    /\ dsPermPoints = <<>>
    /\ dsPermOut = <<>>

\* handleDotClick(dataPoint), dataPoint a cluster: zoom into its area
ClusterClick(dataPoint) ==
    /\ IsCluster(dataPoint)
    /\ zoomState' = ZoomForCluster(dataPoint)
    /\ scrollCalls' = <<>>
    /\ UNCHANGED <<data, chartAxes, xAxis, yAxis, selectedEarthquake, hoveredEarthquake,
                   sorting>>

\* PointClick that also drops the viewport
PointClick_DropsZoom(dataPoint) ==
    /\ ~IsCluster(dataPoint)
    /\ LET earthquake == FindById(synchronizedData, dataPoint.id)
           selected == IF earthquake # Null THEN earthquake ELSE selectedEarthquake
       IN /\ selectedEarthquake' = selected
          /\ scrollCalls' = scrollEffect(selected # selectedEarthquake, selected, rows)
    /\ zoomState' = Null
    /\ UNCHANGED <<data, chartAxes, xAxis, yAxis, hoveredEarthquake, sorting>>

\* handleDotClick(dataPoint), dataPoint an individual point: select it
PointClick(dataPoint) ==
    /\ ~IsCluster(dataPoint)
    /\ LET earthquake == FindById(synchronizedData, dataPoint.id)
           selected == IF earthquake # Null THEN earthquake ELSE selectedEarthquake
       IN /\ selectedEarthquake' = selected
          /\ scrollCalls' = scrollEffect(selected # selectedEarthquake, selected, rows)
    /\ UNCHANGED <<data, chartAxes, xAxis, yAxis, zoomState, hoveredEarthquake, sorting>>

\* (what neither branch changes is stated first, ahead of the choice of
\* the dot)
handleDotClick ==
    /\ dsPhase = "idle"
    /\ UNCHANGED <<data, chartAxes, xAxis, yAxis, hoveredEarthquake, sorting>>
    /\ \E dataPoint \in Dots : ClusterClick(dataPoint) \/ PointClick(dataPoint)
    /\ UNCHANGED <<dsVars, restVars>>

\* handleDotHover(dataPoint) on mouse enter, handleDotHover(null) on mouse leave
DotHover(dataPoint) ==
    /\ dsPhase = "idle"
    /\ IF dataPoint # Null /\ ~IsCluster(dataPoint)
       THEN LET earthquake == FindById(synchronizedData, dataPoint.id) IN
               hoveredEarthquake' =
                   IF earthquake # Null THEN earthquake ELSE hoveredEarthquake
       ELSE hoveredEarthquake' = Null
    /\ scrollCalls' = <<>>
    /\ UNCHANGED <<data, chartAxes, xAxis, yAxis, zoomState, selectedEarthquake, sorting>>
    /\ UNCHANGED <<dsVars, restVars>>

handleDotHover ==
    /\ UNCHANGED <<data, chartAxes, xAxis, yAxis, zoomState, selectedEarthquake, sorting>>
    /\ \E dataPoint \in Dots \cup {Null} : DotHover(dataPoint)

\* handleXAxisChange without setZoomState(null)
handleXAxisChange_KeepsZoom ==
    /\ dsPhase = "idle"
    /\ \E newXAxis \in Axes :
          LET newAxes == [xAxis |-> newXAxis, yAxis |-> yAxis]
              newRows == sortedRows(synchronizedDataFor(data, newAxes), sorting)
          IN /\ xAxis' = newXAxis
             /\ chartAxes' = newAxes
             /\ scrollCalls' = scrollEffect(TRUE, selectedEarthquake, newRows)
    /\ UNCHANGED <<data, yAxis, zoomState, selectedEarthquake, hoveredEarthquake, sorting>>
    /\ UNCHANGED <<dsVars, restVars>>

handleXAxisChange ==
    /\ dsPhase = "idle"
    /\ \E newXAxis \in Axes :
          LET newAxes == [xAxis |-> newXAxis, yAxis |-> yAxis]
              newRows == sortedRows(synchronizedDataFor(data, newAxes), sorting)
          IN /\ xAxis' = newXAxis
             /\ zoomState' = Null
             /\ chartAxes' = newAxes
             \* the new chartAxes object makes synchronizedData, and so rows,
             \* new arrays
             /\ scrollCalls' = scrollEffect(TRUE, selectedEarthquake, newRows)
    /\ UNCHANGED <<data, yAxis, selectedEarthquake, hoveredEarthquake, sorting>>
    /\ UNCHANGED <<dsVars, restVars>>

\* handleYAxisChange memoized once: its closure keeps the xAxis of the first
\* render
handleYAxisChange_StaleXAxis ==
    /\ dsPhase = "idle"
    /\ \E newYAxis \in Axes :
          LET newAxes == [xAxis |-> "longitude", yAxis |-> newYAxis]
              newRows == sortedRows(synchronizedDataFor(data, newAxes), sorting)
          IN /\ yAxis' = newYAxis
             /\ zoomState' = Null
             /\ chartAxes' = newAxes
             /\ scrollCalls' = scrollEffect(TRUE, selectedEarthquake, newRows)
    /\ UNCHANGED <<data, xAxis, selectedEarthquake, hoveredEarthquake, sorting>>
    /\ UNCHANGED <<dsVars, restVars>>

\* useCallback with the dependencies [xAxis, onAxesChange]: the closure holds
\* the xAxis of the last commit.  A change event is a discrete event, whose
\* state updates React commits before it dispatches the next event.
handleYAxisChange ==
    /\ dsPhase = "idle"
    /\ \E newYAxis \in Axes :
          LET newAxes == [xAxis |-> xAxis, yAxis |-> newYAxis]
              newRows == sortedRows(synchronizedDataFor(data, newAxes), sorting)
          IN /\ yAxis' = newYAxis
             /\ zoomState' = Null
             /\ chartAxes' = newAxes
             /\ scrollCalls' = scrollEffect(TRUE, selectedEarthquake, newRows)
    /\ UNCHANGED <<data, xAxis, selectedEarthquake, hoveredEarthquake, sorting>>
    /\ UNCHANGED <<dsVars, restVars>>

\* the Reset Zoom button is rendered while zoomState is set
handleResetZoom ==
    /\ dsPhase = "idle"
    /\ zoomState # Null
    /\ zoomState' = Null
    /\ scrollCalls' = <<>>
    /\ UNCHANGED <<data, chartAxes, xAxis, yAxis, selectedEarthquake, hoveredEarthquake,
                   sorting>>
    /\ UNCHANGED <<dsVars, restVars>>

\* the rows VirtualizedRow is drawn for
RowSet == { rows[i] : i \in 1..Len(rows) }

\* handleRowClick(row.id), the onClick of row
RowClick(row) ==
    /\ dsPhase = "idle"
    /\ LET earthquake == FindById(synchronizedData, row.id)
           selected == IF earthquake # Null THEN earthquake ELSE selectedEarthquake
       IN /\ selectedEarthquake' = selected
          /\ scrollCalls' = scrollEffect(selected # selectedEarthquake, selected, rows)
    /\ UNCHANGED <<data, chartAxes, xAxis, yAxis, zoomState, hoveredEarthquake, sorting>>
    /\ UNCHANGED <<dsVars, restVars>>

handleRowClick == \E row \in RowSet : RowClick(row)

\* RowHover that clears the selection when the mouse leaves
RowHover_ClearsSelection(row) ==
    /\ dsPhase = "idle"
    /\ IF row # Null
       THEN LET earthquake == FindById(synchronizedData, row.id) IN
               /\ hoveredEarthquake' =
                     IF earthquake # Null THEN earthquake ELSE hoveredEarthquake
               /\ selectedEarthquake' = selectedEarthquake
       ELSE /\ hoveredEarthquake' = Null
            /\ selectedEarthquake' = Null
    /\ scrollCalls' = <<>>
    /\ UNCHANGED <<data, chartAxes, xAxis, yAxis, zoomState, sorting>>
    /\ UNCHANGED <<dsVars, restVars>>

\* handleRowHover(rowId): handleRowHover(row.id) on the mouse entering row,
\* handleRowHover(null) on the mouse leaving (row = Null)
RowHover(row) ==
    /\ dsPhase = "idle"
    /\ IF row # Null
       THEN LET earthquake == FindById(synchronizedData, row.id) IN
               hoveredEarthquake' =
                   IF earthquake # Null THEN earthquake ELSE hoveredEarthquake
       ELSE hoveredEarthquake' = Null
    /\ scrollCalls' = <<>>
    /\ UNCHANGED <<data, chartAxes, xAxis, yAxis, zoomState, selectedEarthquake, sorting>>
    /\ UNCHANGED <<dsVars, restVars>>

handleRowHover == \E row \in RowSet \cup {Null} : RowHover(row)

\* handleRowHover(rowId) of the table's second implementation (the one that
\* subscribes to the store): find the record, set it when found.  No record
\* has the id null, so find(eq => eq.id === null) is undefined.
RowHoverStore(row) ==
    /\ dsPhase = "idle"
    /\ LET earthquake == IF row = Null THEN Null
                         ELSE FindById(synchronizedData, row.id)
       IN hoveredEarthquake' = IF earthquake # Null THEN earthquake ELSE hoveredEarthquake
    /\ scrollCalls' = <<>>
    /\ UNCHANGED <<data, chartAxes, xAxis, yAxis, zoomState, selectedEarthquake, sorting>>
    /\ UNCHANGED <<dsVars, restVars>>

handleRowHoverStore == \E row \in RowSet \cup {Null} : RowHoverStore(row)

\* a click on the magnitude header: onSortingChange: setSorting
handleToggleSorting ==
    /\ dsPhase = "idle"
    /\ LET newSorting == toggleSorting(sorting)
           newRows == sortedRows(synchronizedData, newSorting)
       IN /\ sorting' = newSorting
          \* rows is a new array after every change of sorting
          /\ scrollCalls' = scrollEffect(TRUE, selectedEarthquake, newRows)
    /\ UNCHANGED <<data, chartAxes, xAxis, yAxis, zoomState, selectedEarthquake,
                   hoveredEarthquake>>
    /\ UNCHANGED <<dsVars, restVars>>

\* a click on the header of a sortable column, with or without the shift
\* key (isMultiSortEvent): getToggleSortingHandler, onSortingChange: setSorting
handleHeaderClick ==
    /\ dsPhase = "idle"
    /\ \E column \in SortColumns, shiftKey \in BOOLEAN :
          LET newSorting ==
                  columnToggleSorting(column, shiftKey, synchronizedData, sorting)
              newRows == sortedRows(synchronizedData, newSorting)
          IN /\ sorting' = newSorting
             /\ scrollCalls' = scrollEffect(TRUE, selectedEarthquake, newRows)
    /\ UNCHANGED <<data, chartAxes, xAxis, yAxis, zoomState, selectedEarthquake,
                   hoveredEarthquake>>
    /\ UNCHANGED <<dsVars, restVars>>

Init == InitChart

Next ==
    \/ handleDotClick
    \/ handleDotHover
    \/ handleXAxisChange
    \/ handleYAxisChange
    \/ handleResetZoom

\* the dashboard used through its chart alone
Spec == Init /\ [][Next]_vars

InitDashboard ==
    /\ InitChart
    /\ Len(data) <= MaxRows

NextDashboard ==
    \/ handleDotClick
    \/ handleDotHover
    \/ handleXAxisChange
    \/ handleYAxisChange
    \/ handleResetZoom
    \/ handleRowClick
    \/ handleRowHover
    \/ handleRowHoverStore
    \/ handleToggleSorting

\* the dashboard used through its chart and its table
SpecDashboard == InitDashboard /\ [][NextDashboard]_vars

\* the magnitudes and places a record of the sorted table can have
SortSites == <<
    [mag |-> 1, place |-> "a"],
    [mag |-> 2, place |-> "a"],
    [mag |-> 1, place |-> "b"],
    [mag |-> 2, place |-> "B"] >>

\* the record lists of length n for the sorted table, in every order
SortDatasets(n) ==
    { [i \in 1..n |-> [id |-> RecordIds[i], longitude |-> Int2Num(0),
                       latitude |-> Int2Num(i), gap |-> Int2Num(5),
                       mag |-> SortSites[c[i]].mag, place |-> SortSites[c[i]].place]] :
        c \in [1..n -> 1..Len(SortSites)] }

InitSort ==
    /\ RestIdle
    /\ \E n \in 1..MaxSortRows : data \in SortDatasets(n)
    /\ chartAxes = [xAxis |-> "longitude", yAxis |-> "latitude"]
    /\ xAxis = "longitude"
    /\ yAxis = "latitude"
    /\ zoomState = Null
    /\ selectedEarthquake = Null
    /\ hoveredEarthquake = Null
    /\ sorting = <<>>
    /\ scrollCalls = <<>>
    /\ dsPhase = "idle"
    /\ dsPoints = <<>>
    /\ dsMaxPoints = 0
    /\ dsZoom = Null
    /\ dsOut = <<>>
    /\ dsPermPoints = <<>>
    /\ dsPermOut = <<>>

NextSort ==
    \/ handleHeaderClick
    \/ handleRowClick

\* the table sorted through the headers of its columns
SpecSort == InitSort /\ [][NextSort]_vars

(***************************************************************************)
(* Vocabulary of the properties.                                           *)
(***************************************************************************)
Called == dsPhase \in {"called", "permuted"}

Range1(s) == { s[i] : i \in 1..Len(s) }

Max2(a, b) == IF a >= b THEN a ELSE b

\* the ids an entry stands for
MemberIds(entry) == IF IsCluster(entry) THEN Range1(entry.earthquakeIds) ELSE {entry.id}

\* the ids a result stands for
RepresentedIds(out) == UNION { MemberIds(out[i]) : i \in 1..Len(out) }

\* the points a call considers: the input points, inside the viewport when
\* one is given
Considered(points, zoom) ==
    { i \in 1..Len(points) : zoom = Null \/ InZoom(zoom, points[i]) }

\* the input points an entry stands for
MemberPoints(points, entry) ==
    { i \in 1..Len(points) : points[i].id \in MemberIds(entry) }

RECURSIVE SetSum(_, _)
\* the sum of f[i] over the set S of indices
SetSum(f, S) ==
    IF S = {} THEN RZero
    ELSE LET i == CHOOSE j \in S : TRUE IN RAdd(f[i], SetSum(f, S \ {i}))

\* all points of the list share one (x, y)
Coincident(points) ==
    \A i, j \in 1..Len(points) : points[i].x = points[j].x /\ points[i].y = points[j].y

\* what of an entry a reader of the chart can tell apart
EntryView(entry) ==
    [id |-> entry.id, x |-> entry.x, y |-> entry.y, magnitude |-> entry.magnitude,
     cluster |-> IsCluster(entry), members |-> MemberIds(entry)]

(***************************************************************************)
(* C1: whenever points.length > maxPoints, downsampleData returns at most  *)
(* max(maxPoints, 1) entries.                                              *)
(***************************************************************************)
C1_DownsampleBound ==
    (Called /\ Len(dsPoints) > dsMaxPoints) => Len(dsOut) <= Max2(dsMaxPoints, 1)

(***************************************************************************)
(* C2: the cluster sizes plus the number of individual entries equal the   *)
(* number of points considered (inside the viewport when one is given),    *)
(* and every considered point is in exactly one returned entry.            *)
(***************************************************************************)
C2_Conservation ==
    Called =>
        /\ totalRepresented(dsOut) = Cardinality(Considered(dsPoints, dsZoom))
        /\ \A i \in Considered(dsPoints, dsZoom) :
              Cardinality({ k \in 1..Len(dsOut) : dsPoints[i].id \in MemberIds(dsOut[k]) }) = 1

(***************************************************************************)
(* C3: with a viewport, every point the result stands for lies inside the  *)
(* viewport, whatever the number of input points.                          *)
(***************************************************************************)
C3_ResultInsideViewport ==
    (Called /\ dsZoom # Null) =>
        \A k \in 1..Len(dsOut) : \A i \in MemberPoints(dsPoints, dsOut[k]) :
            InZoom(dsZoom, dsPoints[i])

(***************************************************************************)
(* C4: points at (0,0), (0,0), (10,10) with maxPoints = 1 and no viewport  *)
(* give exactly one entry, a cluster of all three whose magnitude is the   *)
(* largest of the three.                                                   *)
(***************************************************************************)
C4_Input ==
    /\ Len(dsPoints) = 3
    /\ dsPoints[1].x = Int2Num(0) /\ dsPoints[1].y = Int2Num(0)
    /\ dsPoints[2].x = Int2Num(0) /\ dsPoints[2].y = Int2Num(0)
    /\ dsPoints[3].x = Int2Num(10) /\ dsPoints[3].y = Int2Num(10)
    /\ dsMaxPoints = 1
    /\ dsZoom = Null

C4_Scenario ==
    (Called /\ C4_Input) =>
        /\ Len(dsOut) = 1
        /\ IsCluster(dsOut[1])
        /\ dsOut[1].clusterSize = 3
        /\ MemberIds(dsOut[1]) = { dsPoints[i].id : i \in 1..3 }
        /\ \A i \in 1..3 : dsPoints[i].magnitude <= dsOut[1].magnitude
        /\ \E i \in 1..3 : dsPoints[i].magnitude = dsOut[1].magnitude

(***************************************************************************)
(* C5: when the gridded points have an x-span or a y-span of zero, the     *)
(* grid cell edge is strictly positive and finite, and every cell index is *)
(* a finite integer.                                                       *)
(***************************************************************************)
C5_PositiveGridEdge ==
    LET filteredPoints == FilteredPoints(dsPoints, dsZoom)
        xRange == Range(Map(filteredPoints, LAMBDA p : p.x))
        yRange == Range(Map(filteredPoints, LAMBDA p : p.y))
        gridSize == GridSizeOf(filteredPoints, dsMaxPoints)
    IN (/\ Called
        /\ ReachesGrid(dsPoints, dsMaxPoints, dsZoom)
        /\ (xRange = RZero \/ yRange = RZero)) =>
            /\ gridSize.kind = "positive"
            /\ \A i \in 1..Len(filteredPoints) :
                  /\ GridIndex(filteredPoints[i].x, gridSize).kind = "finite"
                  /\ GridIndex(filteredPoints[i].y, gridSize).kind = "finite"

(***************************************************************************)
(* C6 as stated: whenever more than maxPoints points share one (x, y), the *)
(* result is exactly one entry, a cluster of all the input points.         *)
(***************************************************************************)
OneClusterOfAll ==
    /\ Len(dsOut) = 1
    /\ IsCluster(dsOut[1])
    /\ MemberIds(dsOut[1]) = { dsPoints[i].id : i \in 1..Len(dsPoints) }
    /\ dsOut[1].clusterSize = Len(dsPoints)

C7_OrderIndependent ==
    dsPhase = "permuted" =>
        { EntryView(dsPermOut[k]) : k \in 1..Len(dsPermOut) } =
        { EntryView(dsOut[k]) : k \in 1..Len(dsOut) }

(***************************************************************************)
(* C8: every returned cluster summarizes one grid cell of at least two     *)
(* points: clusterSize is the number of its member ids and at least 2, the *)
(* members are input points, x and y are the means of the members'         *)
(* coordinates, magnitude is the largest member magnitude; a cell of one   *)
(* point is returned as that point unchanged.                              *)
(***************************************************************************)
C8_Gridded == Called /\ ReachesGrid(dsPoints, dsMaxPoints, dsZoom)

C8_ClusterSummarizesCell ==
    Called =>
        LET filteredPoints == FilteredPoints(dsPoints, dsZoom)
            gridSize == GridSizeOf(filteredPoints, dsMaxPoints)
            key(i) == CellKey(dsPoints[i], gridSize)
            xs == [i \in 1..Len(dsPoints) |-> dsPoints[i].x]
            ys == [i \in 1..Len(dsPoints) |-> dsPoints[i].y]
        IN \A k \in 1..Len(dsOut) :
              LET entry == dsOut[k]
                  members == MemberPoints(dsPoints, entry)
              IN IF IsCluster(entry)
                 THEN /\ C8_Gridded
                      /\ entry.clusterSize = Len(entry.earthquakeIds)
                      /\ entry.clusterSize = Cardinality(MemberIds(entry))
                      /\ entry.clusterSize >= 2
                      /\ Cardinality(members) = entry.clusterSize
                      /\ members \subseteq Considered(dsPoints, dsZoom)
                      /\ \A i \in members : \A j \in Considered(dsPoints, dsZoom) :
                            (key(i) = key(j)) <=> (j \in members)
                      /\ RMul(entry.x, Int2Num(entry.clusterSize)) = SetSum(xs, members)
                      /\ RMul(entry.y, Int2Num(entry.clusterSize)) = SetSum(ys, members)
                      /\ \A i \in members : dsPoints[i].magnitude <= entry.magnitude
                      /\ \E i \in members : dsPoints[i].magnitude = entry.magnitude
                 ELSE /\ \E i \in 1..Len(dsPoints) : entry = dsPoints[i]
                      /\ C8_Gridded =>
                            \A i \in members : \A j \in Considered(dsPoints, dsZoom) :
                                (key(i) = key(j)) <=> (j = i)

\* a call that returns a cluster of points at different places with
\* different magnitudes, next to an individual point
C8_Witness ==
    /\ Called
    /\ \E k, l \in 1..Len(dsOut) :
          /\ IsCluster(dsOut[k])
          /\ ~IsCluster(dsOut[l])
          /\ \E i, j \in MemberPoints(dsPoints, dsOut[k]) :
                /\ dsPoints[i].x # dsPoints[j].x
                /\ dsPoints[i].magnitude < dsPoints[j].magnitude
                /\ i < j

(***************************************************************************)
(* C9: in every reachable zoomed state the viewport rectangle is           *)
(* non-degenerate: xMin < xMax and yMin < yMax.                            *)
(***************************************************************************)
C9_ZoomNonDegenerate ==
    zoomState # Null =>
        /\ RLt(zoomState.xMin, zoomState.xMax)
        /\ RLt(zoomState.yMin, zoomState.yMax)

(***************************************************************************)
(* C10: activating a cluster, zoomed or not, sets the viewport to the      *)
(* bounding box of the cluster's members on the current axes, widened by   *)
(* 10% of its span on each side of each axis; the rectangle contains every *)
(* member, and the next chartData stands for every member.                 *)
(***************************************************************************)
\* the least and the greatest of a non-empty set of numbers
Least(S) == CHOOSE m \in S : \A v \in S : RLeq(m, v)
Greatest(S) == CHOOSE m \in S : \A v \in S : RLeq(v, m)

\* the chart points of the members of a cluster
ClusterMembers(dataPoint) ==
    { allPoints[i] : i \in { j \in 1..Len(allPoints) :
                               allPoints[j].id \in MemberIds(dataPoint) } }

\* lo - (hi - lo)/10 and hi + (hi - lo)/10, as tenths
Widened(lo, hi) ==
    [min |-> Rat(11 * lo.n * hi.d - hi.n * lo.d, 10 * lo.d * hi.d),
     max |-> Rat(11 * hi.n * lo.d - lo.n * hi.d, 10 * lo.d * hi.d)]

BoxWithMargin(dataPoint) ==
    LET xs == { p.x : p \in ClusterMembers(dataPoint) }
        ys == { p.y : p \in ClusterMembers(dataPoint) }
        wx == Widened(Least(xs), Greatest(xs))
        wy == Widened(Least(ys), Greatest(ys))
    IN [xMin |-> wx.min, xMax |-> wx.max, yMin |-> wy.min, yMax |-> wy.max]

\* chartData after the click: the click leaves data and the axes alone
NextChartData == downsampleData(allPoints, MAX_POINTS, zoomState')

C10_ClusterActivation ==
    [][\A dataPoint \in Dots :
          ClusterClick(dataPoint) =>
              /\ zoomState' = BoxWithMargin(dataPoint)
              /\ \A p \in ClusterMembers(dataPoint) : InZoom(zoomState', p)
              /\ MemberIds(dataPoint) \subseteq RepresentedIds(NextChartData)]_vars

\* zoomed into a cluster whose members share x and differ in y (the box has
\* its margin on the y axis), with another cluster to activate in the zoomed
\* chart
C10_Witness ==
    /\ zoomState # Null
    /\ zoomState.xMin = zoomState.xMax
    /\ zoomState.yMin = Rat(-1, 10)
    /\ zoomState.yMax = Rat(11, 10)
    /\ \E dataPoint \in Dots : IsCluster(dataPoint)

(***************************************************************************)
(* C11: a reset, or a change of the X or the Y axis, leaves the chart      *)
(* without a viewport, whatever clusters were activated before, and the    *)
(* chartData computed next is the downsampling of all the points of the    *)
(* (new) axes without a viewport: it stands for every one of them.         *)
(***************************************************************************)
\* zoomed into a cluster, with a point of the chart left outside the
\* viewport and not drawn: the state in which a reset or an axis change
\* has a viewport to drop
C11_Witness ==
    /\ zoomState # Null
    /\ \E i \in 1..Len(allPoints) :
          /\ ~InZoom(zoomState, allPoints[i])
          /\ allPoints[i].id \notin RepresentedIds(chartData)

\* without a viewport chartData is the downsampling of all the points of
\* the axes, and stands for every one of them once
C11_FullWithoutViewport ==
    zoomState = Null =>
        /\ chartData = downsampleData(allPoints, MAX_POINTS, Null)
        /\ RepresentedIds(chartData) = { allPoints[i].id : i \in 1..Len(allPoints) }
        /\ totalRepresented(chartData) = Len(allPoints)

C11_ZoomDropped ==
    /\ []C11_FullWithoutViewport
    /\ [][(handleResetZoom \/ handleXAxisChange \/ handleYAxisChange) =>
              zoomState' = Null]_vars

(***************************************************************************)
(* C12: the viewport changes only when a cluster is activated, on a reset  *)
(* and on an axis change; a click on an individual point, a hover or a     *)
(* leave on the chart, a click or a hover on a table row and a change of   *)
(* the table's sort leave it as it was.                                    *)
(***************************************************************************)
C12_ViewportFrame ==
    [][\/ zoomState' = zoomState
       \/ /\ \/ \E dataPoint \in Dots : ClusterClick(dataPoint)
             \/ handleResetZoom
             \/ handleXAxisChange
             \/ handleYAxisChange
          /\ ~ \/ \E dataPoint \in Dots : PointClick(dataPoint)
               \/ handleDotHover
               \/ handleRowClick
               \/ handleRowHover
               \/ handleRowHoverStore
               \/ handleToggleSorting]_vars

\* zoomed, and the last step was a selection or a change of the sort that
\* scrolled the table (an axis change would have dropped the viewport)
C12_Witness ==
    /\ zoomState # Null
    /\ scrollCalls # <<>>
    /\ hoveredEarthquake # Null
    /\ sorting # <<>>

(***************************************************************************)
(* C13: in every state at most one record has isSelected; a click on the   *)
(* row or on the chart point of a record while another record (or none)    *)
(* is selected leaves that row the only one with isSelected.               *)
(***************************************************************************)
\* the rows with isSelected after a step that leaves the rows as they are
SelectedRowsNext == { row \in RowSet : isSelected(row)' }

C13_AtMostOneSelected ==
    Cardinality({ earthquake \in Range1(data) : isSelected(earthquake) }) <= 1

C13_SingleSelection ==
    /\ []C13_AtMostOneSelected
    /\ [][(/\ selectedEarthquake' # selectedEarthquake
            /\ UNCHANGED <<data, chartAxes, xAxis, yAxis, zoomState, hoveredEarthquake,
                           sorting>>) =>
             LET selectedNext == SelectedRowsNext
                 selectedIds == { row.id : row \in selectedNext }
             IN /\ \A row \in RowSet :
                      selectedNext = {row} \/ ~RowClick(row)
                /\ \A dataPoint \in Dots :
                      \/ selectedIds = {dataPoint.id}
                      \/ IsCluster(dataPoint)
                      \/ ~PointClick(dataPoint)]_vars

\* a record other than the first of the table is selected, just scrolled
\* to, among at least three rows
C13_Witness ==
    /\ Len(rows) >= 3
    /\ selectedEarthquake # Null
    /\ scrollCalls # <<>>
    /\ isSelected(rows[2])
    /\ ~isSelected(rows[1])
    /\ ~isSelected(rows[3])

(***************************************************************************)
(* C14: selection and hover are independent: a step that changes the       *)
(* selected record leaves the hovered record as it was, and a step that    *)
(* changes the hovered record leaves the selected record as it was.        *)
(***************************************************************************)
C14_SelectionHoverIndependent ==
    [][/\ selectedEarthquake' # selectedEarthquake =>
             hoveredEarthquake' = hoveredEarthquake
       /\ hoveredEarthquake' # hoveredEarthquake =>
             selectedEarthquake' = selectedEarthquake
       /\ \/ hoveredEarthquake' = hoveredEarthquake
          \/ ~(handleDotClick \/ handleRowClick)
       /\ \/ selectedEarthquake' = selectedEarthquake
          \/ ~(handleDotHover \/ handleRowHover \/ handleRowHoverStore)]_vars

\* one record selected while another is hovered
C14_Witness ==
    /\ selectedEarthquake # Null
    /\ hoveredEarthquake # Null
    /\ selectedEarthquake.id # hoveredEarthquake.id

(***************************************************************************)
(* C15: a click on a row or on a chart point that changes the selected     *)
(* record makes exactly one scrollToIndex call, with the 0-based position  *)
(* of the record in the sorted rows and align center.                      *)
(***************************************************************************)
\* the scrollToIndex call for the 0-based row index
ScrollTo(index) == [index |-> index, align |-> "center", behavior |-> "smooth"]

C15_SelectScrollsOnce ==
    [][(/\ selectedEarthquake' # selectedEarthquake
        /\ handleRowClick \/ handleDotClick) =>
          LET selected == selectedEarthquake' IN
             /\ selected # Null
             /\ \A i \in 1..Len(rows) :
                   rows[i].id = selected.id => scrollCalls' = <<ScrollTo(i - 1)>>
             /\ \E i \in 1..Len(rows) : rows[i].id = selected.id]_vars

\* one call was made, for the selected record, whose place in the sorted
\* rows is not its place in the data
C15_Witness ==
    /\ selectedEarthquake # Null
    /\ sorting # <<>>
    /\ Len(scrollCalls) = 1
    /\ rows[scrollCalls[1].index + 1].id = selectedEarthquake.id
    /\ synchronizedData[scrollCalls[1].index + 1].id # selectedEarthquake.id

SelectedAbsent ==
    /\ selectedEarthquake # Null
    /\ \A i \in 1..Len(rows) : rows[i].id # selectedEarthquake.id

C17_AbsentNoScroll == SelectedAbsent => scrollCalls = <<>>

\* a record is selected, the rows are sorted and not empty, and the
\* selected record is not one of them
C17_Witness ==
    /\ SelectedAbsent
    /\ Len(rows) >= 1
    /\ sorting # <<>>

(***************************************************************************)
(* C18: after a click on the row of a record, the chart draws the point of *)
(* that record in a selected state: not as it draws the point of a record  *)
(* that is not selected and has the same magnitude.                        *)
(***************************************************************************)
C18_ChartShowsSelection ==
    [][selectedEarthquake' # selectedEarthquake =>
          \A row \in RowSet :
             RowClick(row) =>
                \A p, q \in Dots :
                   (/\ ~IsCluster(p)
                    /\ ~IsCluster(q)
                    /\ p.id = row.id
                    /\ q.id # row.id
                    /\ p.magnitude = q.magnitude) => CustomDot(p) # CustomDot(q)]_vars

(***************************************************************************)
(* C19: a click on a cluster and a hover on a cluster leave the selected   *)
(* and the hovered record as they were; the click changes the viewport and *)
(* nothing else.                                                           *)
(***************************************************************************)
C19_ClusterLeavesCoordinator ==
    [][\/ /\ selectedEarthquake' = selectedEarthquake
          /\ hoveredEarthquake' = hoveredEarthquake
          /\ \/ UNCHANGED <<data, chartAxes, xAxis, yAxis, sorting>>
             \/ ~ \E dataPoint \in Dots : ClusterClick(dataPoint)
       \/ ~ \E dataPoint \in Dots :
              /\ IsCluster(dataPoint)
              /\ ClusterClick(dataPoint) \/ DotHover(dataPoint)]_vars

(***************************************************************************)
(* C20: after the pointer leaves a chart point or a table row no record is *)
(* hovered, whichever implementation of handleRowHover the table has.      *)
(***************************************************************************)
C20_LeaveClearsHover ==
    [][\/ hoveredEarthquake' = Null
       \/ ~(DotHover(Null) \/ RowHover(Null) \/ RowHoverStore(Null))]_vars

(***************************************************************************)
(* EarthquakeTable: the row virtualizer.  useVirtualizer of                *)
(* @tanstack/react-virtual computes the rows to render from the number of  *)
(* rows, the height of the scroll element and its scroll offset; the       *)
(* scroll element is scrolled by the user and by scrollToIndex.            *)
(***************************************************************************)
\* the options of useVirtualizer
rowVirtualizerOptions_NoOverscan == [estimateSize |-> 50, overscan |-> 0]

rowVirtualizerOptions == [estimateSize |-> 50, overscan |-> 5]

estimateSize == rowVirtualizerOptions.estimateSize

overscan == rowVirtualizerOptions.overscan

\* scroll offsets are multiples of half a row
ScrollUnit == estimateSize \div 2

\* measurements[index].start and .end of rows that are never measured
itemStart(index) == index * estimateSize

itemEnd(index) == itemStart(index) + estimateSize

\* rowVirtualizer.getTotalSize()
getTotalSize(v) == v.count * estimateSize

\* scrollHeight - clientHeight of the scroll element
maxOffset(v) ==
    IF getTotalSize(v) > v.outerSize THEN getTotalSize(v) - v.outerSize ELSE 0

\* the offsets the scroll element can be scrolled to
ScrollOffsets(v) == { k * ScrollUnit : k \in 0..(maxOffset(v) \div ScrollUnit) }

\* findNearestBinarySearch over the starts of the rows: the last row that
\* starts at or before value, the first row when there is none
findNearestBinarySearch(count, value) ==
    LET starting == { index \in 0..(count - 1) : itemStart(index) <= value }
    IN IF starting = {} THEN 0
       ELSE CHOOSE index \in starting : \A other \in starting : other <= index

\* calculateRange: the first and the last row that lie in the scroll
\* element; Null without rows
calculateRange(v) ==
    IF v.count = 0
    THEN Null
    ELSE LET startIndex == findNearestBinarySearch(v.count, v.scrollOffset)
             \* while (endIndex < count - 1 && end(endIndex) < offset + size)
             stops == { index \in startIndex..(v.count - 1) :
                          \/ index = v.count - 1
                          \/ itemEnd(index) >= v.scrollOffset + v.outerSize }
             endIndex == CHOOSE index \in stops : \A other \in stops : index <= other
         IN [startIndex |-> startIndex, endIndex |-> endIndex]

\* defaultRangeExtractor: the range widened by overscan rows on both sides
defaultRangeExtractor(range, count) ==
    LET start == IF range.startIndex - overscan > 0
                 THEN range.startIndex - overscan ELSE 0
        end == IF range.endIndex + overscan < count - 1
               THEN range.endIndex + overscan ELSE count - 1
    IN start..end

\* the indexes of rowVirtualizer.getVirtualItems(), the rows rendered
getVirtualIndexes(v) ==
    IF calculateRange(v) = Null THEN {}
    ELSE defaultRangeExtractor(calculateRange(v), v.count)

\* getOffsetForIndex that aligns every row with the top of the list
getOffsetForIndex_Top(v, index) == 0

\* getOffsetForIndex(index, 'center'): the offset that puts the middle of
\* the row in the middle of the scroll element, within the scroll range
getOffsetForIndex(v, index) ==
    LET toOffset == itemStart(index) + estimateSize \div 2 - v.outerSize \div 2
    IN IF toOffset > maxOffset(v) THEN maxOffset(v)
       ELSE IF toOffset < 0 THEN 0 ELSE toOffset

InitVirtual ==
    /\ ChartIdle
    /\ dsPhase = "idle"
    /\ dsPoints = <<>>
    /\ dsMaxPoints = 0
    /\ dsZoom = Null
    /\ dsOut = <<>>
    /\ dsPermPoints = <<>>
    /\ dsPermOut = <<>>
    /\ query = [status |-> "success", fetchStatus |-> "idle", failureCount |-> 0,
                retryDelay |-> 0, error |-> Null]
    /\ dataCache = <<>>
    /\ cacheCall = Null
    /\ \E count \in 0..MaxCount, viewportRows \in 0..MaxViewportRows :
          virtualizer = [count |-> count, outerSize |-> viewportRows * estimateSize,
                         scrollOffset |-> 0, scroll |-> Null]

\* the auto-scroll effect after the selection of the row at index:
\* rowVirtualizer.scrollToIndex(index, {align: 'center', behavior: 'smooth'})
\* starts a smooth scroll of the scroll element
scrollToIndex ==
    /\ \E index \in 0..(virtualizer.count - 1) :
          virtualizer' = [virtualizer EXCEPT !.scroll =
              [index |-> index, offset |-> getOffsetForIndex(virtualizer, index),
               state |-> "running"]]
    /\ UNCHANGED <<chartVars, dsVars, query, dataCache, cacheCall>>

\* a frame of the smooth scroll: the scroll element moves towards the
\* offset asked for, and its scroll event gives the virtualizer the offset
SmoothScrollStep ==
    /\ virtualizer.scroll # Null
    /\ virtualizer.scroll.state = "running"
    /\ LET target == virtualizer.scroll.offset
           offset == virtualizer.scrollOffset
       IN virtualizer' =
             IF offset = target
             THEN [virtualizer EXCEPT !.scroll.state = "done"]
             ELSE [virtualizer EXCEPT !.scrollOffset =
                       IF offset < target THEN offset + ScrollUnit
                                          ELSE offset - ScrollUnit]
    /\ UNCHANGED <<chartVars, dsVars, query, dataCache, cacheCall>>

\* the user scrolls the table; a smooth scroll under way is given up
UserScroll ==
    /\ \E offset \in ScrollOffsets(virtualizer) :
          /\ offset # virtualizer.scrollOffset
          /\ virtualizer' =
                IF virtualizer.scroll # Null /\ virtualizer.scroll.state = "running"
                THEN [virtualizer EXCEPT !.scrollOffset = offset,
                                         !.scroll.state = "aborted"]
                ELSE [virtualizer EXCEPT !.scrollOffset = offset]
    /\ UNCHANGED <<chartVars, dsVars, query, dataCache, cacheCall>>

NextVirtual ==
    \/ scrollToIndex
    \/ SmoothScrollStep
    \/ UserScroll

\* the virtualized rows of the table
SpecVirtual == InitVirtual /\ [][NextVirtual]_vars

\* the browser goes on with a smooth scroll it has started
SpecVirtualLive == SpecVirtual /\ WF_vars(SmoothScrollStep)

(***************************************************************************)
(* useEarthquakeData: the query of the USGS feed.  fetchEarthquakeData     *)
(* gets the CSV text and parses it; the queryFn of useQuery falls back to  *)
(* mock data when that throws.                                             *)
(***************************************************************************)
\* useQuery option retry
retry == 3

\* useQuery option retryDelay
retryDelay(attemptIndex) ==
    IF 1000 * 2 ^ attemptIndex < 30000 THEN 1000 * 2 ^ attemptIndex ELSE 30000

\* Infinity, as parseFloat returns it
Infinity == [inf |-> 1]

\* NaN
NaN == [nan |-> TRUE]

\* parseFloat on the field texts of the model
parseFloat(text) ==
    CASE text = "0" -> Int2Num(0)
      [] text = "1" -> Int2Num(1)
      [] text = "5" -> Int2Num(5)
      [] text = "Infinity" -> Infinity
      [] OTHER -> NaN

\* parseCSV, a numeric field: value && value !== '' ? parseFloat(value) : null
parseNumericField(value) == IF value # "" THEN parseFloat(value) ELSE Null

\* the data lines a CSV text can have: the texts of their fields
CsvLines ==
    { [longitude |-> lon, latitude |-> "0", gap |-> gap, mag |-> "1", place |-> "place"] :
        lon \in {"0", "Infinity"}, gap \in {"", "5", "x", "Infinity"} }

\* the answers of the feed: a network or HTTP error, or a CSV text with n
\* data lines under its header
Responses ==
    {[ok |-> FALSE, lines |-> <<>>]} \cup
    { [ok |-> TRUE, lines |-> lines] :
        lines \in UNION { [1..n -> CsvLines] : n \in 0..MaxCsvLines } }

\* parseCSV of the data lines; the ids of the lines are unique
parseCSV(lines) ==
    [i \in 1..Len(lines) |->
        [id |-> RecordIds[i],
         longitude |-> parseNumericField(lines[i].longitude),
         latitude |-> parseNumericField(lines[i].latitude),
         gap |-> parseNumericField(lines[i].gap),
         mag |-> parseNumericField(lines[i].mag),
         place |-> lines[i].place]]

\* fetchEarthquakeData: throws on a network error, on a response that is
\* not ok and on a text without data lines (lines.length < 2)
fetchEarthquakeData(response) ==
    IF ~response.ok \/ Len(response.lines) = 0
    THEN [threw |-> TRUE, value |-> <<>>]
    ELSE [threw |-> FALSE, value |-> parseCSV(response.lines)]

\* createMockData
createMockData == <<
    [id |-> "mock1", longitude |-> Rat(-1224194, 10000), latitude |-> Rat(377749, 10000),
     gap |-> Int2Num(45), mag |-> Rat(42, 10), place |-> "10km NE of San Francisco, CA"],
    [id |-> "mock2", longitude |-> Rat(-1182437, 10000), latitude |-> Rat(340522, 10000),
     gap |-> Int2Num(38), mag |-> Rat(38, 10), place |-> "5km SW of Los Angeles, CA"],
    [id |-> "mock3", longitude |-> Rat(-740060, 10000), latitude |-> Rat(407128, 10000),
     gap |-> Int2Num(55), mag |-> Rat(21, 10), place |-> "12km E of New York, NY"] >>

\* extractRegion on the places of the model: the text after the last comma
extractRegion(place) ==
    CASE place = "10km NE of San Francisco, CA" -> "CA"
      [] place = "5km SW of Los Angeles, CA" -> "CA"
      [] place = "12km E of New York, NY" -> "NY"
      [] place = "" -> "Unknown"
      [] OTHER -> place

\* processEarthquakeData: the record with its region (the dates and the
\* categories it adds are not followed)
processEarthquakeData(records) ==
    [i \in 1..Len(records) |->
        records[i] @@ [region |-> extractRegion(records[i].place)]]

\* queryFn: the processed records of the feed, the processed mock records
\* when fetchEarthquakeData throws; it throws nothing itself
queryFn(response) ==
    LET rawData == fetchEarthquakeData(response)
    IN IF ~rawData.threw
       THEN [threw |-> FALSE, value |-> processEarthquakeData(rawData.value)]
       ELSE [threw |-> FALSE, value |-> processEarthquakeData(createMockData)]

\* useQuery when a run of queryFn has ended: success, or a retry after
\* retryDelay while fewer than retry runs have failed, or the error
onQueryFnSettled(q, result) ==
    IF ~result.threw
    THEN [status |-> "success", fetchStatus |-> "idle", failureCount |-> 0,
          retryDelay |-> 0, error |-> Null]
    ELSE IF q.failureCount < retry
         THEN [q EXCEPT !.failureCount = q.failureCount + 1,
                        !.retryDelay = retryDelay(q.failureCount)]
         ELSE [q EXCEPT !.status = "error", !.fetchStatus = "idle",
                        !.failureCount = q.failureCount + 1,
                        !.error = [message |-> "Failed to fetch earthquake data"]]

\* useQuery: isLoading
isLoading(q) == q.fetchStatus = "fetching" /\ q.status = "pending"

\* Dashboard: which of its four returns renders
DashboardView ==
    IF isLoading(query) THEN "LoadingSpinner"
    ELSE IF query.error # Null THEN "ErrorMessage"
    ELSE IF data = <<>> THEN "No Data Available"
    ELSE "dashboard"

InitQuery ==
    /\ ChartIdle
    /\ dsPhase = "idle"
    /\ dsPoints = <<>>
    /\ dsMaxPoints = 0
    /\ dsZoom = Null
    /\ dsOut = <<>>
    /\ dsPermPoints = <<>>
    /\ dsPermOut = <<>>
    /\ query = [status |-> "pending", fetchStatus |-> "fetching", failureCount |-> 0,
                retryDelay |-> 0, error |-> Null]
    /\ virtualizer = [count |-> 0, outerSize |-> 0, scrollOffset |-> 0, scroll |-> Null]
    /\ dataCache = <<>>
    /\ cacheCall = Null

\* a run of queryFn against an answer of the feed, and what useQuery and
\* Dashboard make of its result
runQueryFn(response) ==
    /\ query.fetchStatus = "fetching"
    /\ LET result == queryFn(response)
           newData == IF result.threw THEN data ELSE result.value
           newRows == sortedRows(synchronizedDataFor(newData, chartAxes), sorting)
       IN /\ query' = onQueryFnSettled(query, result)
          /\ data' = newData
          /\ scrollCalls' = scrollEffect(TRUE, selectedEarthquake, newRows)
    /\ UNCHANGED <<chartAxes, xAxis, yAxis, zoomState, selectedEarthquake,
                   hoveredEarthquake, sorting>>
    /\ UNCHANGED <<dsVars, virtualizer, dataCache, cacheCall>>

fetchSettles == \E response \in Responses : runQueryFn(response)

\* a refetch of the query: the data is stale and the window gets the focus,
\* or a Retry button calls refetch
refetch ==
    /\ query.fetchStatus = "idle"
    /\ query' = [query EXCEPT !.fetchStatus = "fetching", !.failureCount = 0,
                              !.retryDelay = 0]
    /\ scrollCalls' = <<>>
    /\ UNCHANGED <<data, chartAxes, xAxis, yAxis, zoomState, selectedEarthquake,
                   hoveredEarthquake, sorting>>
    /\ UNCHANGED <<dsVars, virtualizer, dataCache, cacheCall>>

\* the axis selectors are there while the dashboard renders
selectXAxis == DashboardView = "dashboard" /\ handleXAxisChange

selectYAxis == DashboardView = "dashboard" /\ handleYAxisChange

NextQuery ==
    \/ fetchSettles
    \/ refetch
    \/ selectXAxis
    \/ selectYAxis

\* the dashboard from the first fetch on, with its axis selectors
SpecQuery == InitQuery /\ [][NextQuery]_vars

(***************************************************************************)
(* dataProcessing: createFilteredData and calculateDataStats, which keep   *)
(* their results in the module-level Map dataCache.  The Map is the list   *)
(* of its entries in the order of their insertion.                         *)
(***************************************************************************)
\* dataCache.has(key)
MapHas(cache, key) == \E k \in 1..Len(cache) : cache[k].key = key

\* dataCache.get(key) of a key the cache has
MapGet(cache, key) == cache[CHOOSE k \in 1..Len(cache) : cache[k].key = key].value

\* dataCache.set(key, value)
MapSet(cache, key, value) ==
    IF MapHas(cache, key)
    THEN [k \in 1..Len(cache) |->
             IF cache[k].key = key THEN [key |-> key, value |-> value] ELSE cache[k]]
    ELSE Append(cache, [key |-> key, value |-> value])

\* if (dataCache.size > 10) dataCache.delete(dataCache.keys().next().value)
limitCacheSize(cache) == IF Len(cache) > 10 THEN Tail(cache) ELSE cache

\* the cache key of createFilteredData: JSON.stringify(filterState), which
\* tells the filter states of the model apart, and data.length
filteredKey(records, filterState) ==
    [fn |-> "filtered", filterState |-> filterState, length |-> Len(records)]

\* the cache key of calculateDataStats: data.length
statsKey(records) == [fn |-> "stats", filterState |-> Null, length |-> Len(records)]

\* selectedRegions.includes(region)
includesRegion(selectedRegions, region) ==
    \E k \in 1..Len(selectedRegions) : selectedRegions[k] = region

\* createFilteredData(data, filterState) on the cache: the value returned
\* and the cache after the call
createFilteredData(cache, records, filterState) ==
    LET cacheKey == filteredKey(records, filterState)
        filtered ==
            SelectSeq(records, LAMBDA earthquake :
                /\ ~(\/ earthquake.mag < filterState.minMagnitude
                     \/ earthquake.mag > filterState.maxMagnitude)
                /\ ~(/\ Len(filterState.selectedRegions) > 0
                     /\ ~includesRegion(filterState.selectedRegions, earthquake.region)))
    IN IF MapHas(cache, cacheKey)
       THEN [result |-> MapGet(cache, cacheKey), cache |-> cache]
       ELSE [result |-> filtered,
             cache |-> MapSet(limitCacheSize(cache), cacheKey, filtered)]

\* Math.min(...magnitudes) and Math.max(...magnitudes) over integer
\* magnitudes: Infinity and -Infinity for no magnitudes
minOf(magnitudes) ==
    IF magnitudes = <<>> THEN [inf |-> 1]
    ELSE CHOOSE m \in Range1(magnitudes) : \A other \in Range1(magnitudes) : m <= other

maxOf(magnitudes) ==
    IF magnitudes = <<>> THEN [inf |-> -1]
    ELSE CHOOSE m \in Range1(magnitudes) : \A other \in Range1(magnitudes) : m >= other

\* regionCounts: the regions in the order of their first record, each with
\* the number of its records
regionCounts(records) ==
    LET firstOf == SelectSeq([i \in 1..Len(records) |-> i], LAMBDA i :
                       \A j \in 1..(i - 1) : records[j].region # records[i].region)
    IN [k \in 1..Len(firstOf) |->
           [region |-> records[firstOf[k]].region,
            count |-> Cardinality({ j \in 1..Len(records) :
                                      records[j].region = records[firstOf[k]].region })]]

\* Object.entries(regionCounts).sort(([, a], [, b]) => b - a).slice(0, 10)
sortedRegions(records) ==
    LET entries == regionCounts(records)
        Before(j, i) ==
            \/ entries[j].count > entries[i].count
            \/ entries[j].count = entries[i].count /\ j < i
        Rank(i) == Cardinality({ j \in 1..Len(entries) : Before(j, i) })
        sorted == [k \in 1..Len(entries) |->
                      entries[CHOOSE i \in 1..Len(entries) : Rank(i) = k - 1]]
    IN SubSeq(sorted, 1, IF Len(sorted) < 10 THEN Len(sorted) ELSE 10)

\* calculateDataStats(data) on the cache: the value returned and the cache
\* after the call
calculateDataStats(cache, records) ==
    LET cacheKey == statsKey(records)
        magnitudes == [i \in 1..Len(records) |-> records[i].mag]
        stats == [magnitudeRange |-> [min |-> minOf(magnitudes), max |-> maxOf(magnitudes)],
                  regions |-> sortedRegions(records),
                  totalCount |-> Len(records)]
    IN IF MapHas(cache, cacheKey)
       THEN [result |-> MapGet(cache, cacheKey), cache |-> cache]
       ELSE [result |-> stats,
             cache |-> MapSet(limitCacheSize(cache), cacheKey, stats)]

\* the magnitudes and regions a record handed to the cached functions has
CacheSites == << [mag |-> 1, region |-> "CA"], [mag |-> 5, region |-> "NY"] >>

\* the record lists of length n handed to the cached functions
CacheDatasets(n) ==
    { [i \in 1..n |-> [id |-> RecordIds[i], mag |-> CacheSites[c[i]].mag,
                       region |-> CacheSites[c[i]].region]] :
        c \in [1..n -> 1..Len(CacheSites)] }

\* the filter states handed to createFilteredData
FilterStates ==
    { [selectedId |-> Null, hoveredId |-> Null, minMagnitude |-> minMagnitude,
       maxMagnitude |-> 10, selectedRegions |-> selectedRegions] :
        minMagnitude \in {0, 5}, selectedRegions \in {<<>>, <<"CA">>} }

InitCache ==
    /\ ChartIdle
    /\ dsPhase = "idle"
    /\ dsPoints = <<>>
    /\ dsMaxPoints = 0
    /\ dsZoom = Null
    /\ dsOut = <<>>
    /\ dsPermPoints = <<>>
    /\ dsPermOut = <<>>
    /\ query = [status |-> "success", fetchStatus |-> "idle", failureCount |-> 0,
                retryDelay |-> 0, error |-> Null]
    /\ virtualizer = [count |-> 0, outerSize |-> 0, scrollOffset |-> 0, scroll |-> Null]
    /\ dataCache = <<>>
    /\ cacheCall = Null

\* a call createFilteredData(data, filterState)
callCreateFilteredData ==
    /\ Len(dataCache) < MaxCacheEntries
    /\ \E n \in 0..MaxCacheRows :
          \E records \in CacheDatasets(n), filterState \in FilterStates :
             LET call == createFilteredData(dataCache, records, filterState)
             IN /\ dataCache' = call.cache
                /\ cacheCall' = [fn |-> "createFilteredData", data |-> records,
                                 filterState |-> filterState, result |-> call.result]
    /\ UNCHANGED <<chartVars, dsVars, query, virtualizer>>

\* a call calculateDataStats(data)
callCalculateDataStats ==
    /\ Len(dataCache) < MaxCacheEntries
    /\ \E n \in 0..MaxCacheRows :
          \E records \in CacheDatasets(n) :
             LET call == calculateDataStats(dataCache, records)
             IN /\ dataCache' = call.cache
                /\ cacheCall' = [fn |-> "calculateDataStats", data |-> records,
                                 filterState |-> Null, result |-> call.result]
    /\ UNCHANGED <<chartVars, dsVars, query, virtualizer>>

NextCache ==
    \/ callCreateFilteredData
    \/ callCalculateDataStats

\* the cached functions of dataProcessing under any sequence of calls
SpecCache == InitCache /\ [][NextCache]_vars

(***************************************************************************)
(* C21: in every state the records the chart represents (its individual    *)
(* entries and the members of its clusters) are the records of the table   *)
(* rows, whatever the axes, the viewport and the number of records.        *)
(***************************************************************************)
\* the ids of the rows of the table
TableIds == { rows[i].id : i \in 1..Len(rows) }

C21_ChartEqualsTable == RepresentedIds(chartData) = TableIds

(***************************************************************************)
(* C28: a step that leaves the selected record as it was (a change of the  *)
(* sort order, a change of the row set by an axis change, a hover, a zoom) *)
(* makes no scrollToIndex call.                                            *)
(***************************************************************************)
C28_ScrollOnlyOnSelectionChange ==
    [][selectedEarthquake' = selectedEarthquake => scrollCalls' = <<>>]_vars

SortedBy(column, direction) == <<[id |-> column, desc |-> direction = "desc"]>>

\* the first direction of the cycle of a column: by the kind of its values
FirstDirection(column) == IF column = "place" THEN "asc" ELSE "desc"

OtherDirection(direction) == IF direction = "asc" THEN "desc" ELSE "asc"

\* the step is a click without the shift key on the header of column
PlainClick(column) ==
    /\ sorting' # sorting
    /\ LET newSorting == sorting' IN
          newSorting = columnToggleSorting(column, FALSE, synchronizedData, sorting)

C24_SortCycle ==
    /\ [](sorting = <<>> => rows = synchronizedData)
    /\ [][/\ data' = data
          /\ \A column \in SortColumns :
                PlainClick(column) =>
                   LET first == FirstDirection(column) IN
                      /\ sorting = <<>> => sorting' = SortedBy(column, first)
                      /\ sorting = SortedBy(column, first) =>
                            sorting' = SortedBy(column, OtherDirection(first))
                      /\ sorting = SortedBy(column, OtherDirection(first)) =>
                            sorting' = <<>>]_vars

\* the original cycle: ascending first for every column
C24_AscendingFirstCycle ==
    [][\A column \in SortColumns :
          PlainClick(column) =>
             /\ sorting = <<>> => sorting' = SortedBy(column, "asc")
             /\ sorting = SortedBy(column, "asc") => sorting' = SortedBy(column, "desc")
             /\ sorting = SortedBy(column, "desc") => sorting' = <<>>]_vars

\* the magnitude column is sorted in its second direction, and the rows are
\* not in the order of the data
C24_Witness ==
    /\ sorting = SortedBy("mag", "asc")
    /\ rows # synchronizedData

(***************************************************************************)
(* C25: when the table is sorted by a column A and a click on the header   *)
(* of another column B replaces that sort, the rows that have the same key *)
(* in B are in the order they have in the data array.                      *)
(***************************************************************************)
\* the step replaces the sort by one column with the sort by another one
SortReplaced ==
    /\ sorting' # sorting
    /\ Len(sorting) = 1
    /\ Len(sorting') = 1
    /\ sorting'[1].id # sorting[1].id

C25_TiesKeepDataOrder ==
    [][SortReplaced =>
          LET newSorting == sorting'
              newRows == sortedRows(synchronizedData, newSorting)
          IN \A i, j \in 1..Len(newRows) :
                (i < j /\ sortingFn(newSorting[1].id, newRows[i], newRows[j]) = 0) =>
                   findIndex(synchronizedData, newRows[i].id)
                      < findIndex(synchronizedData, newRows[j].id)]_vars

\* the original statement: the rows with the same key in B keep the order
\* they had under the sort by A
C25_TiesKeepPreviousOrder ==
    [][SortReplaced =>
          LET newSorting == sorting'
              newRows == sortedRows(synchronizedData, newSorting)
          IN \A i, j \in 1..Len(newRows) :
                (i < j /\ sortingFn(newSorting[1].id, newRows[i], newRows[j]) = 0) =>
                   findIndex(rows, newRows[i].id) < findIndex(rows, newRows[j].id)]_vars

\* the table is sorted by place, and two rows of the same place are in
\* the order of the data, which is not their order by magnitude
C25_Witness ==
    /\ sorting = SortedBy("place", "asc")
    /\ \E i, j \in 1..Len(rows) :
          /\ i < j
          /\ sortingFn("place", rows[i], rows[j]) = 0
          /\ rows[i].mag < rows[j].mag
          /\ findIndex(synchronizedData, rows[i].id)
                < findIndex(synchronizedData, rows[j].id)

(***************************************************************************)
(* C22: at every scroll offset between 0 and the total height less the     *)
(* height of the scroll element, with rows of 50 pixels and an overscan of *)
(* 5, every row whose pixels [index*50, index*50 + 50] meet the pixels of  *)
(* the scroll element [offset, offset + height] is rendered.               *)
(***************************************************************************)
\* the pixels of the row meet the pixels of the scroll element
Intersects(index, v) ==
    /\ index * 50 <= v.scrollOffset + v.outerSize
    /\ index * 50 + 50 >= v.scrollOffset

ScrollingTo(index) ==
    /\ virtualizer.scroll # Null
    /\ virtualizer.scroll.index = index
    /\ virtualizer.scroll.state = "running"

\* the smooth scroll to the row at index has ended, given up or not
ScrollEnded(index) ==
    /\ virtualizer.scroll # Null
    /\ \/ virtualizer.scroll.index # index
       \/ virtualizer.scroll.state = "aborted"
       \/ /\ virtualizer.scroll.state = "done"
          /\ index \in getVirtualIndexes(virtualizer)

IsFiniteNumber(value) == DOMAIN value = {"n", "d"}

C26_AxisValuesFinite ==
    \A i \in 1..Len(synchronizedData) :
        /\ IsFiniteNumber(synchronizedData[i][chartAxes.xAxis])
        /\ IsFiniteNumber(synchronizedData[i][chartAxes.yAxis])

(***************************************************************************)
(* C29: a run of queryFn in which the fetch of the feed fails counts as a  *)
(* failure of the query: up to 3 failures are followed by a retry after    *)
(* min(1000 * 2^n, 30000) ms, the failure after them sets the error, and   *)
(* Dashboard renders ErrorMessage while the query has an error.            *)
(***************************************************************************)
C29_FailedFetchRetriedThenError ==
    /\ [](query.status = "error" => DashboardView = "ErrorMessage")
    /\ [][\A response \in Responses :
             (~response.ok /\ runQueryFn(response)) =>
                /\ query'.failureCount = query.failureCount + 1
                /\ IF query.failureCount < 3
                   THEN /\ query'.fetchStatus = "fetching"
                        /\ query'.retryDelay = retryDelay(query.failureCount)
                   ELSE query'.status = "error"]_vars

(***************************************************************************)
(* C30: whatever calls were made before, createFilteredData(data, f)       *)
(* returns the records of its own data whose magnitude lies in             *)
(* [f.minMagnitude, f.maxMagnitude] and whose region is selected (any      *)
(* region when none is selected), and calculateDataStats(data) returns the *)
(* statistics of its own data.                                             *)
(***************************************************************************)
\* the records of records that the filter state lets through
RecordsMatching(records, filterState) ==
    SelectSeq(records, LAMBDA earthquake :
        /\ filterState.minMagnitude <= earthquake.mag
        /\ earthquake.mag <= filterState.maxMagnitude
        /\ \/ filterState.selectedRegions = <<>>
           \/ \E k \in 1..Len(filterState.selectedRegions) :
                 filterState.selectedRegions[k] = earthquake.region)

C30_ResultOfOwnData ==
    cacheCall # Null =>
       IF cacheCall.fn = "createFilteredData"
       THEN cacheCall.result = RecordsMatching(cacheCall.data, cacheCall.filterState)
       ELSE /\ cacheCall.result.totalCount = Len(cacheCall.data)
            /\ \A i \in 1..Len(cacheCall.data) :
                  /\ cacheCall.result.magnitudeRange.min <= cacheCall.data[i].mag
                  /\ cacheCall.data[i].mag <= cacheCall.result.magnitudeRange.max
                  /\ \E k \in 1..Len(cacheCall.result.regions) :
                        cacheCall.result.regions[k].region = cacheCall.data[i].region

====
